---- MODULE Spec2Model ----
\* A model of the diff core of diffy (src/src/diff/mod.rs): the line
\* classifier, the edit-script builder, the hunk/patch assembler and the
\* element-level diff_slice entry point.  Positions are 0-based as in the Rust
\* source; TLA+ sequences are 1-based, so element i of a text is text[i + 1].
\*
\* A text is modelled as the sequence of lines `str::lines()` yields for it.
\* The Minimal-Edit Engine (myers::diff) and the Cleanup Pass
\* (cleanup::compact) are separate modules whose code is not part of mod.rs;
\* they are modelled from their contracts (spec sections 4.1 and 4.2).
EXTENDS Integers, Sequences, FiniteSets, TLC

\* ------------------------------------------------------------------ bounds
LineAlphabet == {"a", "b", "c"}
MaxOld == 3
MaxNew == 3
MaxCtx == 3

\* ----------------------------------------------------------------- helpers
Min(x, y) == IF x <= y THEN x ELSE y

\* usize::saturating_sub
SatSub(x, y) == IF x >= y THEN x - y ELSE 0

\* ops::Range<usize>
Range(s, e) == [start |-> s, end |-> e]

\* Range::len / ExactSizeIterator::len of start..end: empty when start >= end
RangeLen(r) == IF r.end > r.start THEN r.end - r.start ELSE 0

\* <[T]>::get(lo..hi).into_iter().flatten(): no line at all when the range is
\* out of bounds or inverted
Get(text, lo, hi) == IF lo <= hi /\ hi <= Len(text) THEN SubSeq(text, lo + 1, hi) ELSE <<>>

\* <[T]>::get(i), as a sequence of zero or one line
GetAt(text, i) == IF i < Len(text) THEN <<text[i + 1]>> ELSE <<>>

SeqsUpTo(S, n) == UNION {[1..k -> S] : k \in 0..n}

\* ------------------------------------------------------------- classifier
ClassifierDefault == [next_id |-> 0, unique_ids |-> [x \in {} |-> 0]]

\* Classifier::classify with the id counter never advanced
ClassifyNoIncrement(c, record) ==
    IF record \in DOMAIN c.unique_ids
    THEN [cls |-> c, id |-> c.unique_ids[record]]
    ELSE [cls |-> [next_id |-> c.next_id,
                   unique_ids |-> [x \in DOMAIN c.unique_ids \cup {record} |->
                                      IF x = record THEN c.next_id ELSE c.unique_ids[x]]],
          id |-> c.next_id]

\* Classifier::classify: the classifier after the call and the id returned
Classify(c, record) ==
    IF record \in DOMAIN c.unique_ids
    THEN [cls |-> c, id |-> c.unique_ids[record]]
    ELSE [cls |-> [next_id |-> c.next_id + 1,
                   unique_ids |-> [x \in DOMAIN c.unique_ids \cup {record} |->
                                      IF x = record THEN c.next_id ELSE c.unique_ids[x]]],
          id |-> c.next_id]

\* ------------------------------------------ minimal-edit engine (contract)
\* D[<<i, j>>]: the least number of Delete+Insert steps turning a[i+1..] into
\* b[j+1..]
EditDistance(a, b) ==
    LET n == Len(a)
        m == Len(b)
        D[p \in (0..n) \X (0..m)] ==
            LET i == p[1]
                j == p[2]
            IN  IF i = n THEN m - j
                ELSE IF j = m THEN n - i
                ELSE IF a[i + 1] = b[j + 1] THEN D[<<i + 1, j + 1>>]
                ELSE 1 + Min(D[<<i + 1, j>>], D[<<i, j + 1>>])
    IN  D

\* Every shortest edit path through the edit graph, as a sequence of unit
\* steps "E" (diagonal), "D" (down old), "I" (down new)
MinPaths(a, b) ==
    LET n == Len(a)
        m == Len(b)
        D == EditDistance(a, b)
        P[p \in (0..n) \X (0..m)] ==
            LET i == p[1]
                j == p[2]
                d == D[p]
            IN  IF i = n /\ j = m THEN {<<>>}
                ELSE (IF i < n /\ j < m /\ a[i + 1] = b[j + 1] /\ D[<<i + 1, j + 1>>] = d
                      THEN {<<"E">> \o q : q \in P[<<i + 1, j + 1>>]} ELSE {})
                     \cup
                     (IF i < n /\ D[<<i + 1, j>>] + 1 = d
                      THEN {<<"D">> \o q : q \in P[<<i + 1, j>>]} ELSE {})
                     \cup
                     (IF j < m /\ D[<<i, j + 1>>] + 1 = d
                      THEN {<<"I">> \o q : q \in P[<<i, j + 1>>]} ELSE {})
    IN  P[<<0, 0>>]

\* The Tagged Diff Ranges of a path, one range per step (the engine may hand
\* the cleanup pass a fragmented list)
RECURSIVE PathRanges(_, _, _, _)
PathRanges(p, k, i, j) ==
    IF k > Len(p) THEN <<>>
    ELSE IF p[k] = "E"
         THEN <<[tag |-> "Equal", old |-> Range(i, i + 1), new |-> Range(j, j + 1)]>>
              \o PathRanges(p, k + 1, i + 1, j + 1)
    ELSE IF p[k] = "D"
         THEN <<[tag |-> "Delete", old |-> Range(i, i + 1)]>>
              \o PathRanges(p, k + 1, i + 1, j)
    ELSE <<[tag |-> "Insert", new |-> Range(j, j + 1)]>>
         \o PathRanges(p, k + 1, i, j + 1)

\* myers::diff: the range lists the engine may return for (old, new)
MyersDiff(a, b) == {PathRanges(p, 1, 0, 0) : p \in MinPaths(a, b)}

\* ------------------------------------------------- cleanup pass (contract)
NoRange == Range(0, 0)

Flush(out, pd, pi) ==
    out \o (IF RangeLen(pd) > 0 THEN <<[tag |-> "Delete", old |-> pd]>> ELSE <<>>)
        \o (IF RangeLen(pi) > 0 THEN <<[tag |-> "Insert", new |-> pi]>> ELSE <<>>)

\* pd, pi: the Delete and Insert spans gathered since the last Equal range
RECURSIVE CompactFrom(_, _, _, _, _)
CompactFrom(sol, k, out, pd, pi) ==
    IF k > Len(sol) THEN Flush(out, pd, pi)
    ELSE LET r == sol[k] IN
         IF r.tag = "Equal"
         THEN IF RangeLen(r.old) = 0 THEN CompactFrom(sol, k + 1, out, pd, pi)
              ELSE LET o == Flush(out, pd, pi) IN
                   IF Len(o) > 0 /\ o[Len(o)].tag = "Equal"
                   THEN CompactFrom(sol, k + 1,
                            [o EXCEPT ![Len(o)] =
                                [tag |-> "Equal",
                                 old |-> Range(o[Len(o)].old.start, r.old.end),
                                 new |-> Range(o[Len(o)].new.start, r.new.end)]],
                            NoRange, NoRange)
                   ELSE CompactFrom(sol, k + 1, Append(o, r), NoRange, NoRange)
         ELSE IF r.tag = "Delete"
         THEN IF RangeLen(r.old) = 0 THEN CompactFrom(sol, k + 1, out, pd, pi)
              ELSE IF RangeLen(pd) = 0 THEN CompactFrom(sol, k + 1, out, r.old, pi)
              ELSE CompactFrom(sol, k + 1, out, Range(pd.start, r.old.end), pi)
         ELSE IF RangeLen(r.new) = 0 THEN CompactFrom(sol, k + 1, out, pd, pi)
              ELSE IF RangeLen(pi) = 0 THEN CompactFrom(sol, k + 1, out, pd, r.new)
              ELSE CompactFrom(sol, k + 1, out, pd, Range(pi.start, r.new.end))

\* cleanup::compact: no zero-length range, adjacent ranges of one tag merged,
\* Delete before Insert at every change point
Compact(sol) == CompactFrom(sol, 1, <<>>, NoRange, NoRange)

\* ------------------------------------------------------------- diff_slice
\* impl From<DiffRange> for Diff: the borrowed view of the range's elements
DiffFrom(r, a, b) ==
    IF r.tag = "Equal" THEN [tag |-> "Equal", view |-> SubSeq(a, r.old.start + 1, r.old.end)]
    ELSE IF r.tag = "Delete" THEN [tag |-> "Delete", view |-> SubSeq(a, r.old.start + 1, r.old.end)]
    ELSE [tag |-> "Insert", view |-> SubSeq(b, r.new.start + 1, r.new.end)]

\* diff_slice with the cleanup pass left out
DiffSliceNoCompact(a, b) ==
    {[k \in 1..Len(raw) |-> DiffFrom(raw[k], a, b)] : raw \in MyersDiff(a, b)}

\* diff_slice: the item lists it may return (one per engine outcome)
DiffSlice(a, b) ==
    {LET sol == Compact(raw) IN [k \in 1..Len(sol) |-> DiffFrom(sol[k], a, b)] :
        raw \in MyersDiff(a, b)}

\* ------------------------------------------------------ build_edit_script
\* EditRange::new
EditRange(o, n) == [old |-> o, new |-> n]

\* build_edit_script whose Delete arm forgets to advance idx_a
RECURSIVE BuildFromStaleCursor(_, _, _, _, _, _)
BuildFromStaleCursor(sol, k, idx_a, idx_b, edit_script, script) ==
    IF k > Len(sol) THEN edit_script \o script
    ELSE LET diff == sol[k] IN
         IF diff.tag = "Equal"
         THEN BuildFromStaleCursor(sol, k + 1, idx_a + RangeLen(diff.old), idx_b + RangeLen(diff.new),
                        edit_script \o script, <<>>)
         ELSE IF diff.tag = "Delete"
         THEN BuildFromStaleCursor(sol, k + 1, idx_a, idx_b, edit_script,
                  IF script /= <<>>
                  THEN <<EditRange(Range(script[1].old.start, script[1].old.end + RangeLen(diff.old)),
                                   script[1].new)>>
                  ELSE <<EditRange(Range(idx_a, idx_a + RangeLen(diff.old)), Range(idx_b, idx_b))>>)
         ELSE BuildFromStaleCursor(sol, k + 1, idx_a, idx_b + RangeLen(diff.new), edit_script,
                  IF script /= <<>>
                  THEN <<EditRange(script[1].old,
                                   Range(script[1].new.start, script[1].new.end + RangeLen(diff.new)))>>
                  ELSE <<EditRange(Range(idx_a, idx_a), Range(idx_b, idx_b + RangeLen(diff.new)))>>)

\* The loop of build_edit_script from range k on; script is the open block
\* (<<>> for None, a one-element sequence for Some)
RECURSIVE BuildFrom(_, _, _, _, _, _)
BuildFrom(sol, k, idx_a, idx_b, edit_script, script) ==
    IF k > Len(sol) THEN edit_script \o script
    ELSE LET diff == sol[k] IN
         IF diff.tag = "Equal"
         THEN BuildFrom(sol, k + 1, idx_a + RangeLen(diff.old), idx_b + RangeLen(diff.new),
                        edit_script \o script, <<>>)
         ELSE IF diff.tag = "Delete"
         THEN BuildFrom(sol, k + 1, idx_a + RangeLen(diff.old), idx_b, edit_script,
                  IF script /= <<>>
                  THEN <<EditRange(Range(script[1].old.start, script[1].old.end + RangeLen(diff.old)),
                                   script[1].new)>>
                  ELSE <<EditRange(Range(idx_a, idx_a + RangeLen(diff.old)), Range(idx_b, idx_b))>>)
         ELSE BuildFrom(sol, k + 1, idx_a, idx_b + RangeLen(diff.new), edit_script,
                  IF script /= <<>>
                  THEN <<EditRange(script[1].old,
                                   Range(script[1].new.start, script[1].new.end + RangeLen(diff.new)))>>
                  ELSE <<EditRange(Range(idx_a, idx_a), Range(idx_b, idx_b + RangeLen(diff.new)))>>)

BuildEditScriptStaleCursor(sol) == BuildFromStaleCursor(sol, 1, 0, 0, <<>>, <<>>)

\* build_edit_script
BuildEditScript(sol) == BuildFrom(sol, 1, 0, 0, <<>>, <<>>)

\* --------------------------------------------------------------- to_patch
Tagged(tag, texts) == [k \in 1..Len(texts) |-> [tag |-> tag, text |-> texts[k]]]

\* calc_end with the post-context subtracted instead of added (it is usize
\* arithmetic: a negative end is an overflow)
CalcEndMinus(context_len, text1_len, text2_len, script1_end, script2_end) ==
    LET post_context_len ==
            Min(context_len,
                Min(SatSub(text1_len, script1_end), SatSub(text2_len, script2_end)))
    IN  [end1 |-> script1_end - post_context_len, end2 |-> script2_end - post_context_len]

\* calc_end that forgets the post-context
CalcEndNoPost(context_len, text1_len, text2_len, script1_end, script2_end) ==
    [end1 |-> script1_end, end2 |-> script2_end]

\* calc_end
CalcEnd(context_len, text1_len, text2_len, script1_end, script2_end) ==
    LET post_context_len ==
            Min(context_len,
                Min(SatSub(text1_len, script1_end), SatSub(text2_len, script2_end)))
    IN  [end1 |-> script1_end + post_context_len, end2 |-> script2_end + post_context_len]

\* the merge test without the clamp of the next block's start to len(old) - 1
CanMergeNoClamp(script, s, a_len, context_len, end1) ==
    SatSub(s.old.start, context_len) < end1

\* the merge test against the end of the block instead of the end of the hunk
CanMergeBlockEnd(script, s, a_len, context_len, end1) ==
    SatSub(Min(s.old.start, a_len - 1), context_len) < script.old.end

\* the merge test with <= for <
CanMergeLeq(script, s, a_len, context_len, end1) ==
    SatSub(Min(s.old.start, a_len - 1), context_len) <= end1

\* The lookahead test of to_patch: the next block s joins the hunk that ends
\* at end1.  Evaluated only when a_len >= 1 (see MergeLoop).
CanMerge(script, s, a_len, context_len, end1) ==
    LET start1_next == SatSub(Min(s.old.start, a_len - 1), context_len)
    IN  start1_next < end1

\* The context lines between two merged blocks: (old gap).zip(new gap), each
\* line read from b_text when it is there
RECURSIVE GapContext(_, _, _)
GapContext(b_text, i2, n) ==
    IF n = 0 THEN <<>>
    ELSE Tagged("Context", GetAt(b_text, i2)) \o GapContext(b_text, i2 + 1, n - 1)

\* HunkRange::new(if len > 0 { start + 1 } else { start }, len), always 1-based
HunkRangeAlwaysOneBased(start, len) == [start |-> start + 1, len |-> len]

\* HunkRange::new(if len > 0 { start + 1 } else { start }, len)
HunkRange(start, len) == [start |-> IF len > 0 THEN start + 1 ELSE start, len |-> len]

\* The inner `loop` of to_patch, entered with block idx as `script`.
\* ok = FALSE: `a_text.len() - 1` was evaluated with an empty a_text (usize
\* overflow: a panic where overflow is checked).
RECURSIVE MergeLoop(_, _, _, _, _, _, _, _)
MergeLoop(a_text, b_text, es, context_len, idx, end1, end2, lines) ==
    LET script == es[idx]
        lines1 == lines
                  \o Tagged("Delete", Get(a_text, script.old.start, script.old.end))
                  \o Tagged("Insert", Get(b_text, script.new.start, script.new.end))
        done == [ok |-> TRUE, idx |-> idx, end1 |-> end1, end2 |-> end2, lines |-> lines1]
    IN  IF idx + 1 <= Len(es)
        THEN LET s == es[idx + 1] IN
             IF Len(a_text) = 0
             THEN [ok |-> FALSE, idx |-> idx, end1 |-> end1, end2 |-> end2, lines |-> lines1]
             ELSE IF CanMerge(script, s, Len(a_text), context_len, end1)
             THEN LET e == CalcEnd(context_len, Len(a_text), Len(b_text), s.old.end, s.new.end)
                      n == Min(RangeLen(Range(script.old.end, s.old.start)),
                               RangeLen(Range(script.new.end, s.new.start)))
                  IN  MergeLoop(a_text, b_text, es, context_len, idx + 1, e.end1, e.end2,
                                lines1 \o GapContext(b_text, script.new.end, n))
             ELSE done
        ELSE done

Hunk(old_range, new_range, lines) ==
    [old_range |-> old_range, new_range |-> new_range, lines |-> lines]

\* The `while let` loop of to_patch from block idx on.  status "overflow": a
\* usize subtraction went below zero (a_text.len() - 1, end1 - start1 or
\* end2 - start2); no Patch is returned.
RECURSIVE HunkLoop(_, _, _, _, _, _)
HunkLoop(a_text, b_text, es, context_len, idx, hunks) ==
    IF idx > Len(es) THEN [status |-> "ok", hunks |-> hunks]
    ELSE LET script == es[idx]
             start1 == SatSub(script.old.start, context_len)
             start2 == SatSub(script.new.start, context_len)
             e == CalcEnd(context_len, Len(a_text), Len(b_text), script.old.end, script.new.end)
             pre == Tagged("Context", Get(b_text, start2, script.new.start))
             m == MergeLoop(a_text, b_text, es, context_len, idx, e.end1, e.end2, pre)
         IN  IF ~m.ok \/ m.end1 < start1 \/ m.end2 < start2
             THEN [status |-> "overflow", hunks |-> hunks]
             ELSE LET lines == m.lines
                               \o Tagged("Context", Get(b_text, es[m.idx].new.end, m.end2))
                      len1 == m.end1 - start1
                      len2 == m.end2 - start2
                  IN  HunkLoop(a_text, b_text, es, context_len, m.idx + 1,
                               Append(hunks, Hunk(HunkRange(start1, len1),
                                                  HunkRange(start2, len2), lines)))

\* DiffLines::to_patch
ToPatch(a_text, b_text, es, context_len) == HunkLoop(a_text, b_text, es, context_len, 1, <<>>)

\* ---------------------------------------------------------- state machine
VARIABLES pc, old, new, classifier, old_ids, new_ids, solution, edit_script,
          context_len, patch, items

vars == <<pc, old, new, classifier, old_ids, new_ids, solution, edit_script,
          context_len, patch, items>>

NoPatch == [status |-> "none", hunks |-> <<>>]

Init ==
    /\ pc = "start"
    /\ old \in SeqsUpTo(LineAlphabet, MaxOld)
    /\ new \in SeqsUpTo(LineAlphabet, MaxNew)
    /\ classifier = ClassifierDefault
    /\ old_ids = <<>>
    /\ new_ids = <<>>
    /\ solution = <<>>
    /\ edit_script = <<>>
    /\ context_len = 0
    /\ patch = NoPatch
    /\ items = <<>>

\* diff_slice(old, new)
DiffSliceCall ==
    /\ pc = "start"
    /\ \E r \in DiffSlice(old, new) : items' = r
    /\ pc' = "sliced"
    /\ UNCHANGED <<old, new, classifier, old_ids, new_ids, solution, edit_script,
                   context_len, patch>>

\* diff_lines: the next line of old goes through the classifier
ClassifyOld ==
    /\ pc \in {"start", "lines"}
    /\ Len(old_ids) < Len(old)
    /\ LET r == Classify(classifier, old[Len(old_ids) + 1]) IN
         /\ classifier' = r.cls
         /\ old_ids' = Append(old_ids, r.id)
    /\ pc' = "lines"
    /\ UNCHANGED <<old, new, new_ids, solution, edit_script, context_len, patch, items>>

\* diff_lines: old is done, the next line of new goes through the classifier
ClassifyNew ==
    /\ pc \in {"start", "lines"}
    /\ Len(old_ids) = Len(old)
    /\ Len(new_ids) < Len(new)
    /\ LET r == Classify(classifier, new[Len(new_ids) + 1]) IN
         /\ classifier' = r.cls
         /\ new_ids' = Append(new_ids, r.id)
    /\ pc' = "lines"
    /\ UNCHANGED <<old, new, old_ids, solution, edit_script, context_len, patch, items>>

\* diff_lines: myers::diff over the ids, cleanup::compact, build_edit_script,
\* DiffLines::new
Solve ==
    /\ pc \in {"start", "lines"}
    /\ Len(old_ids) = Len(old)
    /\ Len(new_ids) = Len(new)
    /\ \E sol \in {Compact(raw) : raw \in MyersDiff(old_ids, new_ids)} :
         /\ solution' = sol
         /\ edit_script' = BuildEditScript(sol)
    /\ pc' = "script"
    /\ UNCHANGED <<old, new, classifier, old_ids, new_ids, context_len, patch, items>>

\* DiffLines::to_patch(context_len) on the DiffLines diff_lines returned.
\* to_patch takes &self and changes nothing, so a second call starts from
\* the same DiffLines as the first.
ToPatchCall ==
    /\ pc = "script"
    /\ \E c \in 0..MaxCtx :
         /\ context_len' = c
         /\ patch' = ToPatch(old, new, edit_script, c)
    /\ pc' = "patched"
    /\ UNCHANGED <<old, new, classifier, old_ids, new_ids, solution, edit_script, items>>

Next == DiffSliceCall \/ ClassifyOld \/ ClassifyNew \/ Solve \/ ToPatchCall

Spec == Init /\ [][Next]_vars

\* ------------------------------------------------- reading a Patch back
Hunks == patch.hunks

\* The 0-based window [Win0, WinEnd) a HunkRange reports
Win0(r) == IF r.len > 0 THEN r.start - 1 ELSE r.start
WinEnd(r) == Win0(r) + r.len

IsOldLine(l) == l.tag \in {"Context", "Delete"}
IsNewLine(l) == l.tag \in {"Context", "Insert"}
Texts(lines) == [k \in 1..Len(lines) |-> lines[k].text]
OldTexts(h) == Texts(SelectSeq(h.lines, IsOldLine))
NewTexts(h) == Texts(SelectSeq(h.lines, IsNewLine))
CountTag(lines, tag) == Cardinality({k \in 1..Len(lines) : lines[k].tag = tag})

RECURSIVE SumLen(_, _, _)
SumLen(es, side, k) ==
    IF k = 0 THEN 0
    ELSE SumLen(es, side, k - 1)
         + (IF side = "old" THEN RangeLen(es[k].old) ELSE RangeLen(es[k].new))

\* new lines minus old lines over the hunks before hunk k
RECURSIVE NetBefore(_, _)
NetBefore(hs, k) ==
    IF k <= 1 THEN 0
    ELSE NetBefore(hs, k - 1) + hs[k - 1].new_range.len - hs[k - 1].old_range.len

\* Block B lies inside hunk h on both sides
Contains(h, B) ==
    /\ Win0(h.old_range) <= B.old.start /\ B.old.end <= WinEnd(h.old_range)
    /\ Win0(h.new_range) <= B.new.start /\ B.new.end <= WinEnd(h.new_range)

\* Blocks k and k + 1 of the edit script were put into one hunk
SameHunk(k) ==
    \E i \in 1..Len(Hunks) :
        Contains(Hunks[i], edit_script[k]) /\ Contains(Hunks[i], edit_script[k + 1])

\* The context window of a block, as the claim C9 describes it
PreStart(B, c) == SatSub(B.old.start, c)
PostEnd(B, c) == B.old.end + Min(c, Min(Len(old) - B.old.end, Len(new) - B.new.end))

\* The engine has one possible outcome for the two id sequences
UniqueScript == Cardinality({Compact(raw) : raw \in MyersDiff(old_ids, new_ids)}) = 1

HasScript == pc \in {"script", "patched"}
Patched == pc = "patched"

\* ------------------------------------------------------------------ C1
\* C1: to_patch returns a Patch without any fault for every pair of texts and
\* every context_len: no usize subtraction goes below zero (a_text.len() - 1
\* is evaluated, which happens exactly when a block has a successor, only
\* with old non-empty; end1 >= start1 and end2 >= start2), and the lines of
\* each hunk are no more than its two windows hold.
C1_ToPatchTotal ==
    /\ HasScript => (Len(edit_script) >= 2 => Len(old) >= 1)
    /\ Patched =>
         /\ patch.status = "ok"
         /\ \A i \in 1..Len(Hunks) :
              /\ Hunks[i].old_range.len >= 0
              /\ Hunks[i].new_range.len >= 0
              /\ Len(Hunks[i].lines) <= Hunks[i].old_range.len + Hunks[i].new_range.len

\* two blocks, a context larger than both texts
C1_Witness ==
    /\ Patched /\ patch.status = "ok"
    /\ Len(edit_script) >= 2
    /\ context_len > Len(old) /\ context_len > Len(new)

\* an empty old text against a non-empty new one
C1_WitnessEmptyOld == Patched /\ old = <<>> /\ new /= <<>> /\ Len(Hunks) = 1

\* ------------------------------------------------------------------ C2
SideOk(r, texts, text) ==
    /\ r.len = Len(texts)
    /\ r.len > 0 => /\ r.start >= 1
                    /\ r.start + r.len - 1 <= Len(text)
                    /\ texts = SubSeq(text, r.start, r.start + r.len - 1)

InsertOnlyExample == old = <<"a", "b">> /\ new = <<"a", "b", "c">> /\ context_len = 0

\* C2 as stated: a side with lines has the 1-based number of its first line
\* as start; a side without lines has range (0, 0); the example gives old
\* range (0, 0).  Stated for the texts whose shortest edit script is unique,
\* where no tie-breaking of the engine plays a part.
C2_Original ==
    (Patched /\ UniqueScript) =>
      /\ \A i \in 1..Len(Hunks) :
           /\ SideOk(Hunks[i].old_range, OldTexts(Hunks[i]), old)
           /\ SideOk(Hunks[i].new_range, NewTexts(Hunks[i]), new)
           /\ Hunks[i].old_range.len = 0 => Hunks[i].old_range.start = 0
           /\ Hunks[i].new_range.len = 0 => Hunks[i].new_range.start = 0
      /\ InsertOnlyExample =>
           Hunks = <<Hunk([start |-> 0, len |-> 0], [start |-> 3, len |-> 1],
                          <<[tag |-> "Insert", text |-> "c"]>>)>>

\* C2 amended: a side with lines has the 1-based number of its first line as
\* start; a side without lines has range (p, 0), p the number of lines of
\* that side before the hunk's position (the other side's 0-based start
\* corrected by what the earlier hunks inserted and deleted), which is 0 only
\* at the very beginning; the example gives old range (2, 0).
C2_HunkRanges ==
    Patched =>
      /\ \A i \in 1..Len(Hunks) :
           /\ SideOk(Hunks[i].old_range, OldTexts(Hunks[i]), old)
           /\ SideOk(Hunks[i].new_range, NewTexts(Hunks[i]), new)
           /\ Hunks[i].old_range.len = 0 =>
                Hunks[i].old_range.start = Win0(Hunks[i].new_range) - NetBefore(Hunks, i)
           /\ Hunks[i].new_range.len = 0 =>
                Hunks[i].new_range.start = Win0(Hunks[i].old_range) + NetBefore(Hunks, i)
      /\ InsertOnlyExample =>
           Hunks = <<Hunk([start |-> 2, len |-> 0], [start |-> 3, len |-> 1],
                          <<[tag |-> "Insert", text |-> "c"]>>)>>

C2_Witness == Patched /\ InsertOnlyExample /\ Len(Hunks) = 1

\* a pure deletion after an earlier hunk: the new side has no lines
C2_WitnessDelete ==
    /\ Patched /\ Len(Hunks) = 2
    /\ Hunks[2].new_range.len = 0 /\ Hunks[2].new_range.start > 0

\* ------------------------------------------------------------------ C3
Max(x, y) == IF x >= y THEN x ELSE y

\* Every context_len at or above len(old) + len(new) that is compared
CtxCeiling == Len(old) + Len(new) + 1

NumHunksAt(c) == Len(ToPatch(old, new, edit_script, c).hunks)

\* to_patch(c), to_patch(c + 1), ..., to_patch(last) return no more hunks
\* than prev, and no more than one another in this order
RECURSIVE NonIncreasingFrom(_, _, _)
NonIncreasingFrom(c, last, prev) ==
    IF c > last THEN TRUE
    ELSE LET k == NumHunksAt(c) IN
         k <= prev /\ NonIncreasingFrom(c + 1, last, k)

\* hs is one hunk that holds every Delete and Insert of the edit script
OneHunkOfAll(hs) ==
    /\ Len(hs) = 1
    /\ CountTag(hs[1].lines, "Delete") = SumLen(edit_script, "old", Len(edit_script))
    /\ CountTag(hs[1].lines, "Insert") = SumLen(edit_script, "new", Len(edit_script))

\* C3: the number of hunks is non-increasing in context_len (from the patch
\* at hand through every larger context_len up to the ceiling), and when the
\* texts differ every context_len >= len(old) + len(new) gives exactly one
\* hunk that holds every change block.
C3_HunkCountMonotone ==
    Patched =>
      /\ NonIncreasingFrom(context_len + 1, CtxCeiling, Len(Hunks))
      /\ old /= new =>
           \A c \in (Len(old) + Len(new))..CtxCeiling :
              OneHunkOfAll(ToPatch(old, new, edit_script, c).hunks)

\* a patch of two hunks that a larger context collapses into one
C3_Witness ==
    /\ Patched /\ Len(Hunks) >= 2 /\ context_len >= 1
    /\ \E c \in (context_len + 1)..CtxCeiling :
         Len(ToPatch(old, new, edit_script, c).hunks) = 1

\* ------------------------------------------------------------------ C4
\* C4: to_patch(0) emits no Context line and merges nothing: one hunk per
\* change block, holding that block's Delete lines then its Insert lines.
C4_ContextFloor ==
    (Patched /\ context_len = 0) =>
      /\ Len(Hunks) = Len(edit_script)
      /\ \A i \in 1..Len(Hunks) :
           /\ CountTag(Hunks[i].lines, "Context") = 0
           /\ i <= Len(edit_script) =>
                Hunks[i].lines =
                    Tagged("Delete", SubSeq(old, edit_script[i].old.start + 1, edit_script[i].old.end))
                    \o Tagged("Insert", SubSeq(new, edit_script[i].new.start + 1, edit_script[i].new.end))

\* context 0, two blocks, the second an insertion at the very end of old
C4_Witness ==
    /\ Patched /\ context_len = 0 /\ Len(edit_script) = 2
    /\ edit_script[2].old.start = Len(old)
    /\ Len(Hunks) = 2

\* ------------------------------------------------------------------ C5
\* C5: the hunks of a Patch are in ascending order and do not overlap on
\* either side.
C5_HunksDisjoint ==
    Patched =>
      \A i \in 1..(Len(Hunks) - 1) :
         /\ WinEnd(Hunks[i].old_range) <= Win0(Hunks[i + 1].old_range)
         /\ WinEnd(Hunks[i].new_range) <= Win0(Hunks[i + 1].new_range)

\* two hunks with context around them
C5_Witness ==
    /\ Patched /\ context_len >= 1 /\ Len(Hunks) >= 2
    /\ CountTag(Hunks[1].lines, "Context") >= 1
    /\ CountTag(Hunks[2].lines, "Context") >= 1

\* ------------------------------------------------------------------ C6
IdentityItems == <<[tag |-> "Equal", view |-> old]>>

\* C6 as stated: diff_slice(x, x) is one Equal item spanning x, for x of any
\* length.
C6_Original == (pc = "sliced" /\ old = new) => items = IdentityItems

\* C6 amended: diff_slice(x, x) is one Equal item spanning x for every
\* non-empty x, and the empty list for the empty x.
C6_Identity ==
    (pc = "sliced" /\ old = new) =>
      /\ old /= <<>> => items = IdentityItems
      /\ old = <<>> => items = <<>>

C6_Witness == pc = "sliced" /\ old = new /\ Len(old) >= 2 /\ Len(items) = 1

\* ------------------------------------------------------------------ C7
Seen == SubSeq(old, 1, Len(old_ids)) \o SubSeq(new, 1, Len(new_ids))
Ids == old_ids \o new_ids
SeenSet == {Seen[i] : i \in 1..Len(Seen)}
FirstSeen(l) == CHOOSE i \in 1..Len(Seen) : Seen[i] = l /\ \A j \in 1..(i - 1) : Seen[j] /= l

\* C7: while diff_lines classifies (old's lines, then new's), two lines have
\* equal ids iff they are the same text, the first line has id 0, ids are
\* dense in first-seen order, next_id counts the distinct lines, and the id
\* the table holds for a line is the id every earlier call returned for it.
C7_ClassifierIds ==
    /\ Len(Ids) = Len(Seen)
    /\ \A i, j \in 1..Len(Seen) : (Seen[i] = Seen[j]) <=> (Ids[i] = Ids[j])
    /\ Len(Ids) >= 1 => Ids[1] = 0
    /\ {Ids[i] : i \in 1..Len(Ids)} = 0..(classifier.next_id - 1)
    /\ classifier.next_id = Cardinality(SeenSet)
    /\ DOMAIN classifier.unique_ids = SeenSet
    /\ \A i \in 1..Len(Seen) :
         /\ classifier.unique_ids[Seen[i]] = Ids[i]
         /\ Ids[i] = Cardinality({Seen[j] : j \in 1..(FirstSeen(Seen[i]) - 1)})

\* three distinct lines, one of them seen in old and again in new
C7_Witness ==
    /\ classifier.next_id = 3
    /\ Len(old_ids) = Len(old) /\ Len(new_ids) = Len(new)
    /\ \E i \in 1..Len(old), j \in 1..Len(new) : old[i] = new[j] /\ old_ids[i] = new_ids[j]

\* ------------------------------------------------------------------ C8
\* C8: every hunk is faithful to both texts: its Context and Delete lines
\* are old[start1..end1), its Context and Insert lines are new[start2..end2)
\* (so the lengths are #Context + #Delete and #Context + #Insert), and each
\* Context line, read from new, is the old line at its old position.
C8_HunkFaithful ==
    Patched =>
      \A i \in 1..Len(Hunks) :
         LET h == Hunks[i]
             s1 == Win0(h.old_range)
             s2 == Win0(h.new_range)
         IN  /\ WinEnd(h.old_range) <= Len(old)
             /\ WinEnd(h.new_range) <= Len(new)
             /\ OldTexts(h) = SubSeq(old, s1 + 1, WinEnd(h.old_range))
             /\ NewTexts(h) = SubSeq(new, s2 + 1, WinEnd(h.new_range))
             /\ h.old_range.len = CountTag(h.lines, "Context") + CountTag(h.lines, "Delete")
             /\ h.new_range.len = CountTag(h.lines, "Context") + CountTag(h.lines, "Insert")
             /\ \A k \in 1..Len(h.lines) :
                  h.lines[k].tag = "Context" =>
                     LET p == s1 + Len(SelectSeq(SubSeq(h.lines, 1, k - 1), IsOldLine))
                     IN  p < Len(old) /\ old[p + 1] = h.lines[k].text

\* a hunk with pre-context, gap context between two merged blocks and
\* post-context
C8_Witness ==
    /\ Patched /\ Len(edit_script) = 2 /\ Len(Hunks) = 1
    /\ CountTag(Hunks[1].lines, "Context") >= 1
    /\ CountTag(Hunks[1].lines, "Delete") >= 1
    /\ CountTag(Hunks[1].lines, "Insert") >= 1

\* ------------------------------------------------------------------ C9
\* C9 as stated: two consecutive blocks share a hunk iff the pre-context
\* start of the second is strictly below the post-context end of the first.
\* Stated for the texts whose shortest edit script is unique, where no
\* tie-breaking of the engine plays a part.
C9_Original ==
    (Patched /\ UniqueScript) =>
      \A k \in 1..(Len(edit_script) - 1) :
         SameHunk(k) <=>
            PreStart(edit_script[k + 1], context_len) < PostEnd(edit_script[k], context_len)

\* C9 amended: two consecutive blocks B, B' share a hunk iff their context
\* windows overlap, or they touch (pre-context start of B' = post-context end
\* of B) and B' is an insertion at the very end of old (B'.old.start =
\* len(old)).
C9_MergeRule ==
    Patched =>
      \A k \in 1..(Len(edit_script) - 1) :
         LET pre == PreStart(edit_script[k + 1], context_len)
             post == PostEnd(edit_script[k], context_len)
         IN  SameHunk(k) <=>
                \/ pre < post
                \/ pre = post /\ edit_script[k + 1].old.start = Len(old)

\* windows that touch before an insertion at the end of old: one hunk
C9_Witness ==
    /\ Patched /\ Len(edit_script) = 2 /\ Len(Hunks) = 1
    /\ edit_script[2].old.start = Len(old)
    /\ PreStart(edit_script[2], context_len) = PostEnd(edit_script[1], context_len)

\* windows that touch elsewhere: two hunks
C9_WitnessTouch ==
    /\ Patched /\ Len(edit_script) = 2 /\ Len(Hunks) = 2
    /\ context_len >= 1
    /\ PreStart(edit_script[2], context_len) = PostEnd(edit_script[1], context_len)

\* ----------------------------------------------------------------- C10
IsChange(r) == r.tag /= "Equal"

\* The maximal runs <<i, j>> of Delete/Insert ranges of the solution
Runs ==
    {ij \in (1..Len(solution)) \X (1..Len(solution)) :
        /\ ij[1] <= ij[2]
        /\ \A k \in ij[1]..ij[2] : IsChange(solution[k])
        /\ ij[1] = 1 \/ ~IsChange(solution[ij[1] - 1])
        /\ ij[2] = Len(solution) \/ ~IsChange(solution[ij[2] + 1])}

\* The k-th run in list order
RunAt(k) == CHOOSE ij \in Runs : Cardinality({r \in Runs : r[1] < ij[1]}) = k - 1

\* The old (new) position the list has reached before range i, read off the
\* ranges' own offsets
OldBefore(i) ==
    LET S == {k \in 1..(i - 1) : solution[k].tag \in {"Equal", "Delete"}}
    IN  IF S = {} THEN 0 ELSE solution[CHOOSE k \in S : \A q \in S : q <= k].old.end
NewBefore(i) ==
    LET S == {k \in 1..(i - 1) : solution[k].tag \in {"Equal", "Insert"}}
    IN  IF S = {} THEN 0 ELSE solution[CHOOSE k \in S : \A q \in S : q <= k].new.end

Positions(r) == r.start..(r.end - 1)

\* The compacted list build_edit_script is given: no zero-length range, old
\* and new covered
CompactedInput ==
    /\ \A k \in 1..Len(solution) :
         IF solution[k].tag = "Insert" THEN RangeLen(solution[k].new) > 0
         ELSE RangeLen(solution[k].old) > 0
    /\ OldBefore(Len(solution) + 1) = Len(old)
    /\ NewBefore(Len(solution) + 1) = Len(new)

\* C10: on a compacted list build_edit_script returns, in order, one block
\* per maximal run of Delete/Insert ranges; no block has both spans empty;
\* a block's old (new) span is the absolute positions of the run's Deleted
\* (Inserted) elements and starts where the list stands before the run; two
\* consecutive blocks are g >= 1 unchanged elements apart on both sides.
C10_EditScript ==
    (HasScript /\ CompactedInput) =>
      /\ Len(edit_script) = Cardinality(Runs)
      /\ \A k \in 1..Len(edit_script) :
           LET B == edit_script[k]
               run == RunAt(k)
               R == run[1]..run[2]
           IN  /\ B.old.start <= B.old.end /\ B.new.start <= B.new.end
               /\ RangeLen(B.old) + RangeLen(B.new) > 0
               /\ B.old.start = OldBefore(run[1])
               /\ B.new.start = NewBefore(run[1])
               /\ Positions(B.old) =
                    UNION {Positions(solution[q].old) : q \in {x \in R : solution[x].tag = "Delete"}}
               /\ Positions(B.new) =
                    UNION {Positions(solution[q].new) : q \in {x \in R : solution[x].tag = "Insert"}}
      /\ \A k \in 1..(Len(edit_script) - 1) :
           LET g == edit_script[k + 1].old.start - edit_script[k].old.end
           IN  /\ g >= 1
               /\ edit_script[k + 1].new.start - edit_script[k].new.end = g

\* a block that deletes and inserts, then a pure insertion
C10_Witness ==
    /\ HasScript /\ CompactedInput /\ Len(edit_script) = 2
    /\ RangeLen(edit_script[1].old) > 0 /\ RangeLen(edit_script[1].new) > 0
    /\ RangeLen(edit_script[2].old) = 0

====
